---------------------------- MODULE Spec2Model ----------------------------
(***************************************************************************)
(* Gold-bullion ledger: the FIFO replay engine (recalculateAllData) and    *)
(* the source reconciler (loadData) of App.tsx, with the persistence       *)
(* mapping of services/supabase.ts.                                        *)
(*                                                                         *)
(* Units.  Quantities are integers counted in ticks of half the engine's   *)
(* tolerance: the literal 0.0001 g of the source is EPS = 2 ticks, so a    *)
(* quantity can lie strictly below, exactly at, or above the tolerance.    *)
(* Arithmetic on ticks is exact; binary floating-point rounding of the     *)
(* JavaScript numbers is not modelled.  Rates are integers in a money unit *)
(* per gram, so amounts (cogs, profit, taxableAmount) are in               *)
(* money-unit x tick.                                                      *)
(* Dates, timestamps and ids are strings compared with localeCompare in    *)
(* the source; they are modelled as integers with the same order           *)
(* (ISO dates and ISO timestamps sort chronologically).  createdAt = 0     *)
(* stands for an absent (falsy) createdAt, closedDate = 0 for an absent    *)
(* closedDate.                                                             *)
(* Audit lines are built in the source with formatGrams / formatCurrency   *)
(* (utils, not part of the sources at hand); a line is modelled by the     *)
(* record of the arguments it is rendered from.                            *)
(***************************************************************************)
EXTENDS Integers, Sequences, FiniteSets, TLC

(***************************************************************************)
(* Bounds of the model.                                                    *)
(***************************************************************************)
MaxTx == 3
MaxDate == 2
MaxStamp == 2
MaxQty == 6
MaxId == 3
MaxLoads == 1
MaxAdds == 1

(***************************************************************************)
(* Program constants.                                                      *)
(***************************************************************************)
EPS == 2

TicksPerGram == EPS * 10000

VARIABLES
    ledger,             \* the set of transactions handed to recalculateAllData
    pc,                 \* position inside recalculateAllData
    sorted,             \* const sorted
    idx,                \* position of the for..of loop over sorted (1-based)
    currentInventory,   \* let currentInventory
    processedInvoices,  \* const processedInvoices
    remainingToSell,    \* let remainingToSell (sale branch)
    totalCOGS,          \* let totalCOGS (sale branch)
    consumptionLog,     \* const consumptionLog (sale branch)
    bidx,               \* position of the for..of loop over currentInventory
    prev,               \* the value returned by the previous call, if any
    drawn,              \* history: per lot, the sum of the chunks taken from it
    lotsAtSale,         \* history: currentInventory when the current/last sale began
    cloud,              \* the rows of the remote 'orders' table, in insertion order
    localStore,         \* what loadInvoices() returns (the local cache)
    invoices,           \* React state: invoices
    inventory,          \* React state: inventory
    dbError,            \* React state: dbError
    isSyncing,          \* React state: isSyncing
    loads,              \* the loadData calls in flight, each at its await
    saves,              \* the saveOrderToSupabase calls in flight
    clock,              \* wall clock of the session, read by new Date()
    lastLoad,           \* history: what the loadData that completed last worked on
    sync,               \* handleManualSync: where it stands, and its local snapshot
    deletes,            \* the deleteOrderFromSupabase calls in flight (ids)
    replayed            \* history: the list whose replay was stored last

engineVars == <<ledger, pc, sorted, idx, currentInventory, processedInvoices,
                remainingToSell, totalCOGS, consumptionLog, bidx, prev,
                drawn, lotsAtSale>>

appVars == <<cloud, localStore, invoices, inventory, dbError, isSyncing,
             loads, saves, clock, lastLoad,
             sync, deletes, replayed>>

vars == <<engineVars, appVars>>

(***************************************************************************)
(* Helpers on sequences and numbers.                                       *)
(***************************************************************************)
Range(s) == {s[i] : i \in 1..Len(s)}

Min(a, b) == IF a <= b THEN a ELSE b

RECURSIVE SumSeq(_)
SumSeq(s) == IF s = <<>> THEN 0 ELSE s[1] + SumSeq(Tail(s))

Reverse(s) == [i \in 1..Len(s) |-> s[Len(s) + 1 - i]]

\* All orderings (as sequences) of a finite set.
Orderings(S) == {s \in [1..Cardinality(S) -> S] : Range(s) = S}

(***************************************************************************)
(* The sequencer: the comparator passed to sort.                           *)
(***************************************************************************)
\* String.prototype.localeCompare on two keys, by sign.
localeCompare(x, y) == IF x < y THEN -1 ELSE IF x > y THEN 1 ELSE 0

\* Variant: the newest date first.
compareFnNewestFirst(a, b) ==
    IF a.date # b.date THEN localeCompare(b.date, a.date)
    ELSE localeCompare(a.id, b.id)

compareFn(a, b) ==
    LET dateComp == localeCompare(a.date, b.date)
        timeComp == localeCompare(a.createdAt, b.createdAt)
    IN  IF dateComp # 0 THEN dateComp
        ELSE IF a.createdAt # 0 /\ b.createdAt # 0 /\ timeComp # 0 THEN timeComp
        ELSE localeCompare(a.id, b.id)

(***************************************************************************)
(* Array.prototype.sort as the JavaScript engine runs it (V8 TimSort).     *)
(* For arrays shorter than 64 elements the minimal run length is the array *)
(* length: the engine finds the initial run, reverses it when descending,  *)
(* and binary-inserts every remaining element.                             *)
(***************************************************************************)
RECURSIVE RunEnd(_, _, _)
RunEnd(arr, k, isDescending) ==
    IF k = Len(arr) THEN k
    ELSE LET order == compareFn(arr[k + 1], arr[k])
         IN  IF isDescending
             THEN IF order >= 0 THEN k ELSE RunEnd(arr, k + 1, isDescending)
             ELSE IF order < 0 THEN k ELSE RunEnd(arr, k + 1, isDescending)

\* CountAndMakeRun: <<array with the initial run made ascending, run length>>
CountAndMakeRun(arr) ==
    LET isDescending == compareFn(arr[2], arr[1]) < 0
        runLength == RunEnd(arr, 2, isDescending)
    IN  IF isDescending
        THEN <<[i \in 1..Len(arr) |-> IF i <= runLength THEN arr[runLength + 1 - i] ELSE arr[i]],
               runLength>>
        ELSE <<arr, runLength>>

\* Binary search of the insertion point of pivot in arr[left .. right-1].
RECURSIVE BinarySearch(_, _, _, _)
BinarySearch(arr, pivot, left, right) ==
    IF left >= right THEN left
    ELSE LET mid == left + ((right - left) \div 2)
         IN  IF compareFn(pivot, arr[mid]) < 0
             THEN BinarySearch(arr, pivot, left, mid)
             ELSE BinarySearch(arr, pivot, mid + 1, right)

RECURSIVE BinaryInsertionSort(_, _)
BinaryInsertionSort(arr, start) ==
    IF start > Len(arr) THEN arr
    ELSE LET pivot == arr[start]
             left == BinarySearch(arr, pivot, 1, start)
             moved == [p \in 1..Len(arr) |->
                         IF p = left THEN pivot
                         ELSE IF p > left /\ p <= start THEN arr[p - 1]
                         ELSE arr[p]]
         IN  BinaryInsertionSort(moved, start + 1)

\* [...allInvoices].sort(compareFn)
SortInvoices(allInvoices) ==
    IF Len(allInvoices) < 2 THEN allInvoices
    ELSE LET run == CountAndMakeRun(allInvoices)
         IN  IF run[2] < Len(allInvoices)
             THEN BinaryInsertionSort(run[1], run[2] + 1)
             ELSE run[1]


(***************************************************************************)
(* The FIFO engine: the body of the replay loop of recalculateAllData.     *)
(***************************************************************************)
\* Variant: the lot is opened with nothing left in it.
NewBatchUnfilled(inv) ==
    [id |-> inv.id, date |-> inv.date,
     originalQuantity |-> inv.quantityGrams,
     remainingQuantity |-> 0,
     costPerGram |-> inv.ratePerGram,
     closedDate |-> 0]

\* const newBatch: InventoryBatch = {...}
NewBatch(inv) ==
    [id |-> inv.id, date |-> inv.date,
     originalQuantity |-> inv.quantityGrams,
     remainingQuantity |-> inv.quantityGrams,
     costPerGram |-> inv.ratePerGram,
     closedDate |-> 0]

\* Variant: the record is normalised on the way, taxableAmount recomputed.
AnnotateNormalised(inv, cogs, profit, fifoLog) ==
    [f \in (DOMAIN inv) \cup {"cogs", "profit", "fifoLog"} |->
        IF f = "cogs" THEN cogs
        ELSE IF f = "profit" THEN profit
        ELSE IF f = "fifoLog" THEN fifoLog
        ELSE IF f = "taxableAmount" THEN inv.quantityGrams * inv.ratePerGram
        ELSE inv[f]]

\* { ...inv, cogs, profit, fifoLog }: every field of inv, the three set anew.
Annotate(inv, cogs, profit, fifoLog) ==
    [f \in (DOMAIN inv) \cup {"cogs", "profit", "fifoLog"} |->
        IF f = "cogs" THEN cogs
        ELSE IF f = "profit" THEN profit
        ELSE IF f = "fifoLog" THEN fifoLog
        ELSE inv[f]]

\* One line of the consumption log, by the values it is rendered from.
LogLine(kind, grams, date, rate) ==
    [kind |-> kind, grams |-> grams, date |-> date, rate |-> rate]

\* Variant: the warning is pushed for every sale.
AmbiguityLogAlways(inv) == <<LogLine("NO_TIMESTAMP", 0, 0, 0)>>

\* Variant: the log goes on from the one the record already carries.
AmbiguityLogCarried(inv) ==
    (IF "fifoLog" \in DOMAIN inv THEN inv.fifoLog ELSE <<>>)
       \o (IF inv.createdAt = 0 THEN <<LogLine("NO_TIMESTAMP", 0, 0, 0)>> ELSE <<>>)

\* if (!inv.createdAt) consumptionLog.push("WARNING: No Timestamp ...")
AmbiguityLog(inv) ==
    IF inv.createdAt = 0 THEN <<LogLine("NO_TIMESTAMP", 0, 0, 0)>> ELSE <<>>

\* Variant: the break is missing.
LoopBreakMissing(need) == FALSE

\* if (remainingToSell <= 0) break;
LoopBreak(need) == need <= 0

\* if (batch.remainingQuantity > 0.0001)
Eligible(batch) == batch.remainingQuantity > EPS

\* Variant: the chunk is not clamped to the lot.
TakeUnclamped(batch, need) == need

\* Variant: a chunk is at most one tick above the tolerance, so a sale is
\* spread over the lots.
TakeSpread(batch, need) == Min(Min(batch.remainingQuantity, need), EPS + 1)

\* const take = Math.min(batch.remainingQuantity, remainingToSell)
Take(batch, need) == Min(batch.remainingQuantity, need)

\* Variant: += for -=.
DepleteSignSlip(quantity, take) == quantity + take

\* batch.remainingQuantity -= take;  remainingToSell -= take;
Deplete(quantity, take) == quantity - take

\* Variant: the lot's whole remaining quantity is priced, not the chunk.
CostOfWholeLot(take, batch) == batch.remainingQuantity * batch.costPerGram

\* const costForChunk = take * batch.costPerGram
CostForChunk(take, batch) == take * batch.costPerGram

\* `${formatGrams(take)} from ${batch.date} @ ${formatCurrency(batch.costPerGram)}`
AuditLine(take, batch) == LogLine("DRAW", take, batch.date, batch.costPerGram)

\* Variant: the lot is stamped closed but keeps its residue.
CloseKeepsResidue(batch, saleDate) ==
    IF batch.remainingQuantity < EPS
    THEN [batch EXCEPT !.closedDate = saleDate]
    ELSE batch

\* if (batch.remainingQuantity < 0.0001) { remainingQuantity = 0; closedDate = inv.date }
CloseIfEmpty(batch, saleDate) ==
    IF batch.remainingQuantity < EPS
    THEN [batch EXCEPT !.remainingQuantity = 0, !.closedDate = saleDate]
    ELSE batch

\* The state of one sale: the lots, and the sale's locals.  take is the chunk
\* of the iteration just run (0 when the lot was skipped).
Frame(lots, need, cogs, log, take) ==
    [lots |-> lots, need |-> need, cogs |-> cogs, log |-> log, take |-> take]

\* One iteration of  for (const batch of currentInventory)  past the break test.
LoopBody(fr, b, inv) ==
    LET batch == fr.lots[b]
        take == Take(batch, fr.need)
        drained == [batch EXCEPT !.remainingQuantity = Deplete(@, take)]
    IN  IF Eligible(batch)
        THEN Frame([fr.lots EXCEPT ![b] = CloseIfEmpty(drained, inv.date)],
                   Deplete(fr.need, take),
                   fr.cogs + CostForChunk(take, batch),
                   Append(fr.log, AuditLine(take, batch)),
                   take)
        ELSE Frame(fr.lots, fr.need, fr.cogs, fr.log, 0)

\* Variant: the stockout test compares with 0, not with the tolerance.
StockoutLogNoTolerance(need) ==
    IF need > 0 THEN <<[kind |-> "STOCKOUT", grams |-> need, date |-> 0, rate |-> 0]>>
    ELSE <<>>

\* if (remainingToSell > 0.0001) consumptionLog.push("STOCKOUT: ... sold without inventory!")
StockoutLog(need) ==
    IF need > EPS THEN <<LogLine("STOCKOUT", need, 0, 0)>> ELSE <<>>

\* Variant: the revenue is always quantity x rate.
ProfitIgnoresTaxable(inv, cogs) == inv.quantityGrams * inv.ratePerGram - cogs

\* const profit = (inv.taxableAmount || (inv.quantityGrams * inv.ratePerGram)) - totalCOGS
Profit(inv, cogs) ==
    (IF inv.taxableAmount # 0 THEN inv.taxableAmount
     ELSE inv.quantityGrams * inv.ratePerGram) - cogs

\* processedInvoices.push({ ...inv, cogs: 0, profit: 0, fifoLog: [] })
ProcessedPurchase(inv) == Annotate(inv, 0, 0, <<>>)

\* processedInvoices.push({ ...inv, cogs: totalCOGS, profit, fifoLog: consumptionLog })
ProcessedSale(inv, fr) ==
    Annotate(inv, fr.cogs, Profit(inv, fr.cogs), fr.log \o StockoutLog(fr.need))

\* The frame a sale starts with.
SaleEntry(inv, lots) == Frame(lots, inv.quantityGrams, 0, AmbiguityLog(inv), 0)

\* if (inv.type === 'PURCHASE') ... else ...
IsPurchase(inv) == inv.type = "PURCHASE"

(***************************************************************************)
(* recalculateAllData as a function, for the callers that use its result:  *)
(* the same loop bodies, run to completion.                                *)
(***************************************************************************)
RECURSIVE SaleLoop(_, _, _)
SaleLoop(fr, b, inv) ==
    IF b > Len(fr.lots) \/ LoopBreak(fr.need) THEN fr
    ELSE SaleLoop(LoopBody(fr, b, inv), b + 1, inv)

RECURSIVE ReplayFrom(_, _, _, _)
ReplayFrom(srt, i, lots, processed) ==
    IF i > Len(srt)
    THEN [updatedInvoices |-> processed, updatedInventory |-> lots]
    ELSE LET inv == srt[i]
         IN  IF IsPurchase(inv)
             THEN ReplayFrom(srt, i + 1, Append(lots, NewBatch(inv)),
                             Append(processed, ProcessedPurchase(inv)))
             ELSE LET fr == SaleLoop(SaleEntry(inv, lots), 1, inv)
                  IN  ReplayFrom(srt, i + 1, fr.lots,
                                 Append(processed, ProcessedSale(inv, fr)))

recalculateAllData(allInvoices) ==
    ReplayFrom(SortInvoices(allInvoices), 1, <<>>, <<>>)


(***************************************************************************)
(* The transactions the engine is run on.  A transaction carries the       *)
(* fields the engine reads; partyName and the GST fields pass through      *)
(* untouched and are left out.  quantityGrams and ratePerGram are positive *)
(* (the data model's invariant); taxableAmount is quantity x rate, as      *)
(* InvoiceForm computes it.                                                *)
(***************************************************************************)
Types == {"PURCHASE", "SALE"}

RateOf(id) == id + 1

StdQty == EPS + 1

Tx(id, date, createdAt, type, qty, rate) ==
    [id |-> id, date |-> date, createdAt |-> createdAt, type |-> type,
     quantityGrams |-> qty, ratePerGram |-> rate, taxableAmount |-> qty * rate]

\* Ordering family: any date, createdAt absent (0) or present, one quantity.
\* Quantity family: one transaction a day, no createdAt (legacy records),
\* any quantity below, at and above the tolerance.
\* A ledger of n transactions with ids 1..n, one choice of fields per id.
OrderChoices == (1..MaxDate) \X (0..MaxStamp) \X Types

OrderLedger(n, f) ==
    {Tx(i, f[i][1], f[i][2], f[i][3], StdQty, RateOf(i)) : i \in 1..n}

FifoChoices == Types \X (1..MaxQty)

FifoLedger(n, f) ==
    {Tx(i, i, 0, f[i][1], f[i][2], RateOf(i)) : i \in 1..n}

\* The worked example of the specification: purchases of 100 g at 5,000 and
\* 50 g at 5,200 on days 1 and 2, a sale of 120 g on day 3.  Rates are in
\* units of 100 rupees per gram.
ExampleLedger ==
    {Tx(1, 1, 1, "PURCHASE", 100 * TicksPerGram, 50),
     Tx(2, 2, 1, "PURCHASE", 50 * TicksPerGram, 52),
     Tx(3, 3, 1, "SALE", 120 * TicksPerGram, 55)}

\* The stockout example: a purchase of 10 g on day 1, a sale of 15 g on day 2.
StockoutLedger ==
    {Tx(1, 1, 1, "PURCHASE", 10 * TicksPerGram, 50),
     Tx(2, 2, 1, "SALE", 15 * TicksPerGram, 55)}

\* Taxable family: a purchase and two sales whose taxableAmount is stored
\* apart from quantity x rate: 0 (an absent or null column reads as falsy)
\* or an amount of its own.
TaxableChoices == 0..MaxQty

WithTaxable(inv, amount) == [inv EXCEPT !.taxableAmount = amount]

TaxableLedger(t, u) ==
    {Tx(1, 1, 1, "PURCHASE", 2 * StdQty, 2),
     WithTaxable(Tx(2, 2, 1, "SALE", StdQty, 5), t),
     WithTaxable(Tx(3, 3, 1, "SALE", StdQty, 5), u)}

\* Same-day family: a purchase and a sale dated the same day, entered in
\* either order (the createdAt stamps 1 and 2 tell which came first).
SameDayLedger(first, p, s) ==
    {Tx(1, 1, IF first = "PURCHASE" THEN 1 ELSE 2, "PURCHASE", p, RateOf(1)),
     Tx(2, 1, IF first = "PURCHASE" THEN 2 ELSE 1, "SALE", s, RateOf(2))}

(***************************************************************************)
(* The persistence mapping of services/supabase.ts.  A row of the 'orders' *)
(* table holds the columns mapOrderToDB writes; its created_at is given by *)
(* the database and is the row's rank in insertion order.                  *)
(***************************************************************************)
\* invoice.cogs || 0 : a field that may be absent
FieldOr0(r, f) == IF f \in DOMAIN r THEN r[f] ELSE 0

mapOrderToDB(invoice) ==
    [id |-> invoice.id, date |-> invoice.date, type |-> invoice.type,
     quantity_grams |-> invoice.quantityGrams,
     rate_per_gram |-> invoice.ratePerGram,
     taxable_amount |-> invoice.taxableAmount,
     cogs |-> FieldOr0(invoice, "cogs"), profit |-> FieldOr0(invoice, "profit")]

\* The Invoice built from a row has no createdAt: reading it gives undefined.
mapOrderFromDB(o) ==
    [id |-> o.id, date |-> o.date, createdAt |-> 0, type |-> o.type,
     quantityGrams |-> o.quantity_grams, ratePerGram |-> o.rate_per_gram,
     taxableAmount |-> o.taxable_amount, cogs |-> o.cogs, profit |-> o.profit]

\* .order('date').order('created_at'): by date, insertion order within a date.
RECURSIVE OrderByDate(_, _)
OrderByDate(rows, dates) ==
    IF dates = {} THEN <<>>
    ELSE LET d == CHOOSE x \in dates : \A y \in dates : x <= y
         IN  SelectSeq(rows, LAMBDA r : r.date = d) \o OrderByDate(rows, dates \ {d})

\* fetchOrders on success: data.map(mapOrderFromDB)
fetchOrders(rows) ==
    LET data == OrderByDate(rows, {r.date : r \in Range(rows)})
    IN  [i \in 1..Len(data) |-> mapOrderFromDB(data[i])]

\* .upsert(payload): the row with this id is replaced in place, or appended.
Upsert(rows, payload) ==
    IF \E i \in 1..Len(rows) : rows[i].id = payload.id
    THEN [i \in 1..Len(rows) |-> IF rows[i].id = payload.id THEN payload ELSE rows[i]]
    ELSE Append(rows, payload)

(***************************************************************************)
(* The source reconciler: loadData after its await.                        *)
(***************************************************************************)
Ids(orders) == {orders[i].id : i \in 1..Len(orders)}

\* localOrders.filter(lo => !cloudIds.has(lo.id))
UnsyncedLocalOrders(cloudOrders, localOrders) ==
    SelectSeq(localOrders, LAMBDA lo : lo.id \notin Ids(cloudOrders))

\* Variant: the mixed state appends the whole local list.
FinalOrdersAllLocal(cloudOrders, localOrders) ==
    IF Len(cloudOrders) = 0 /\ Len(localOrders) > 0 THEN localOrders
    ELSE IF Len(UnsyncedLocalOrders(cloudOrders, localOrders)) > 0
         THEN cloudOrders \o localOrders
         ELSE cloudOrders

\* Variant: the mixed state keeps the local copies and adds what is remote only.
FinalOrdersPreferLocal(cloudOrders, localOrders) ==
    IF Len(cloudOrders) = 0 /\ Len(localOrders) > 0 THEN localOrders
    ELSE IF Len(UnsyncedLocalOrders(cloudOrders, localOrders)) > 0
         THEN localOrders \o UnsyncedLocalOrders(localOrders, cloudOrders)
         ELSE cloudOrders

\* let finalOrders = cloudOrders; if ... else if ...
FinalOrders(cloudOrders, localOrders) ==
    LET unsyncedLocalOrders == UnsyncedLocalOrders(cloudOrders, localOrders)
    IN  IF Len(cloudOrders) = 0 /\ Len(localOrders) > 0 THEN localOrders
        ELSE IF Len(unsyncedLocalOrders) > 0
             THEN cloudOrders \o unsyncedLocalOrders
             ELSE cloudOrders

\* Variant: an empty answer is taken for a failure too.
FetchFailedOrEmpty(result) == ~result.ok \/ result.rows = <<>>

\* if (cloudOrders === null)
FetchFailed(result) == ~result.ok

\* Variant: a setter that patches, keeping the entries it already holds (by
\* id) and taking only the new ones from the value.
SetStatePatched(current, value) ==
    [i \in 1..Len(value) |->
        IF \E j \in 1..Len(current) : current[j].id = value[i].id
        THEN current[CHOOSE j \in 1..Len(current) : current[j].id = value[i].id]
        ELSE value[i]]

\* setInvoices(value) / setInventory(value): the state becomes the value.
SetState(current, value) == value

\* What loadData hands to recalculateAllData.
Candidate(result, localOrders) ==
    IF FetchFailed(result) THEN localOrders
    ELSE FinalOrders(result.rows, localOrders)

\* DashboardView: const hasMissing = localCount > cloudCount
HasMissing == Len(localStore) > Len(invoices)

\* useMemo: currentStock, the sum of the lots' remainingQuantity.
RECURSIVE CurrentStock(_)
CurrentStock(lots) ==
    IF lots = <<>> THEN 0
    ELSE lots[1].remainingQuantity + CurrentStock(Tail(lots))

(***************************************************************************)
(* The transactions of the application model: one per id, a purchase for   *)
(* an odd id and a sale for an even one, dated by its id.                  *)
(***************************************************************************)
FormTx(id, createdAt, qty) ==
    Tx(id, id, createdAt, IF id % 2 = 1 THEN "PURCHASE" ELSE "SALE", qty, RateOf(id))

AppTx(id, createdAt) == FormTx(id, createdAt, StdQty)

\* What can be typed into the form's quantity field (type="number", no min):
\* a negative number, zero, or a positive quantity.
FormQuantities == {0 - 1, 0, StdQty}

\* The transactions of ids a..b in ascending order (none when a > b).
IdRun(a, b, createdAtOf(_)) ==
    [i \in 1..(IF b >= a THEN b - a + 1 ELSE 0) |-> AppTx(a + i - 1, createdAtOf(a + i - 1))]

\* A loadData call: where it stands, what its fetch answered, and (history)
\* the id confirmDelete had deleted when it called it, 0 for any other caller.
NoLoad == [pc |-> "idle", ok |-> FALSE, rows |-> <<>>, after |-> 0]

NoLastLoad == [done |-> FALSE, ok |-> FALSE, cloudOrders |-> <<>>,
               localOrders |-> <<>>, finalOrders |-> <<>>]

NoSync == [pc |-> "idle", localOrders |-> <<>>, missingInCloud |-> <<>>, load |-> 0]

AppIdle ==
    /\ cloud = <<>>
    /\ localStore = <<>>
    /\ invoices = <<>>
    /\ inventory = <<>>
    /\ dbError = FALSE
    /\ isSyncing = FALSE
    /\ loads = [k \in 1..MaxLoads |-> NoLoad]
    /\ saves = {}
    /\ clock = 1
    /\ lastLoad = NoLastLoad
    /\ sync = NoSync
    /\ deletes = {}
    /\ replayed = <<>>

\* loadData up to  await fetchOrders()
LoadDataStart(k) ==
    /\ loads[k].pc = "idle"
    /\ isSyncing' = TRUE
    /\ loads' = [loads EXCEPT ![k] = [NoLoad EXCEPT !.pc = "fetching"]]
    /\ UNCHANGED <<cloud, localStore, invoices, inventory, dbError, saves, clock, lastLoad>>
    /\ UNCHANGED <<replayed, sync, deletes>>
    /\ UNCHANGED engineVars

\* fetchOrders answers with the rows of the table as they are now.
FetchSucceeds(k) ==
    /\ loads[k].pc = "fetching"
    /\ loads' = [loads EXCEPT ![k] = [@ EXCEPT !.pc = "fetched", !.ok = TRUE,
                                                !.rows = fetchOrders(cloud)]]
    /\ UNCHANGED <<cloud, localStore, invoices, inventory, dbError, isSyncing,
                   saves, clock, lastLoad>>
    /\ UNCHANGED <<replayed, sync, deletes>>
    /\ UNCHANGED engineVars

\* fetchOrders answers null (error).
FetchFails(k) ==
    /\ loads[k].pc = "fetching"
    /\ loads' = [loads EXCEPT ![k] = [@ EXCEPT !.pc = "fetched"]]
    /\ UNCHANGED <<cloud, localStore, invoices, inventory, dbError, isSyncing,
                   saves, clock, lastLoad>>
    /\ UNCHANGED <<replayed, sync, deletes>>
    /\ UNCHANGED engineVars

\* loadData from the await to its end (finally included).
LoadDataResume(k) ==
    /\ loads[k].pc = "fetched"
    /\ LET cloudOrders == loads[k]
           localOrders == localStore
           finalOrders == Candidate(cloudOrders, localOrders)
           out == recalculateAllData(finalOrders)
       IN  /\ dbError' = FetchFailed(cloudOrders)
           /\ invoices' = SetState(invoices, Reverse(out.updatedInvoices))
           /\ inventory' = SetState(inventory, out.updatedInventory)
           /\ lastLoad' = [done |-> TRUE, ok |-> cloudOrders.ok,
                           cloudOrders |-> cloudOrders.rows,
                           localOrders |-> localOrders,
                           finalOrders |-> finalOrders]
           /\ replayed' = finalOrders
    /\ isSyncing' = FALSE
    /\ loads' = [loads EXCEPT ![k] = NoLoad]
    /\ sync' = IF sync.pc = "loading" /\ sync.load = k THEN NoSync ELSE sync
    /\ UNCHANGED <<cloud, localStore, saves, clock, deletes>>
    /\ UNCHANGED engineVars

\* InvoiceForm.handleSubmit: the tests that reject an entry.  The required
\* fields are tested as strings, so any typed number passes ("0" and "-1"
\* are non-empty); the only test on the quantity is the stock test of a sale.
HandleSubmitAccepts(type, qty, currentStock) ==
    ~(type = "SALE" /\ qty > currentStock)

\* InvoiceForm.handleSubmit accepts the entry and calls handleAddInvoice,
\* which runs up to  await saveOrderToSupabase(invoice).
HandleAddInvoice(id, qty) ==
    LET invoice == FormTx(id, clock, qty)
        newInvoicesList == <<invoice>> \o invoices
        out == recalculateAllData(newInvoicesList)
    IN  /\ id \notin Ids(invoices) \cup Ids(cloud) \cup Ids(localStore)
                     \cup {i.id : i \in saves}
        /\ clock <= MaxId + MaxAdds
        /\ HandleSubmitAccepts(invoice.type, qty, CurrentStock(inventory))
        /\ invoices' = SetState(invoices, Reverse(out.updatedInvoices))
        /\ inventory' = SetState(inventory, out.updatedInventory)
        /\ saves' = saves \cup {invoice}
        /\ clock' = clock + 1
        /\ replayed' = newInvoicesList
        /\ UNCHANGED <<cloud, localStore, dbError, isSyncing, loads, lastLoad>>
        /\ UNCHANGED <<sync, deletes>>
        /\ UNCHANGED engineVars

\* saveOrderToSupabase: the upsert reaches the table.
SaveSucceeds(invoice) ==
    /\ invoice \in saves
    /\ cloud' = Upsert(cloud, mapOrderToDB(invoice))
    /\ saves' = saves \ {invoice}
    /\ UNCHANGED <<localStore, invoices, inventory, dbError, isSyncing, loads,
                   clock, lastLoad>>
    /\ UNCHANGED <<replayed, sync, deletes>>
    /\ UNCHANGED engineVars

\* saveOrderToSupabase: the upsert fails; a toast is all that happens.
SaveFails(invoice) ==
    /\ invoice \in saves
    /\ saves' = saves \ {invoice}
    /\ UNCHANGED <<cloud, localStore, invoices, inventory, dbError, isSyncing,
                   loads, clock, lastLoad>>
    /\ UNCHANGED <<replayed, sync, deletes>>
    /\ UNCHANGED engineVars

NextApp ==
    \/ \E k \in 1..MaxLoads : LoadDataStart(k)
    \/ \E k \in 1..MaxLoads : FetchSucceeds(k)
    \/ \E k \in 1..MaxLoads : FetchFails(k)
    \/ \E k \in 1..MaxLoads : LoadDataResume(k)
    \/ \E id \in 1..MaxId : HandleAddInvoice(id, StdQty)
    \/ \E invoice \in saves : SaveSucceeds(invoice)
    \/ \E invoice \in saves : SaveFails(invoice)

(***************************************************************************)
(* recalculateAllData, statement by statement.                             *)
(***************************************************************************)
\* .upsert(payload) of a list of rows.
RECURSIVE BulkUpsert(_, _)
BulkUpsert(rows, payload) ==
    IF payload = <<>> THEN rows
    ELSE BulkUpsert(Upsert(rows, Head(payload)), Tail(payload))

\* handleManualSync up to  await fetchOrders().  Its button is rendered
\* only while hasMissing and is disabled while isSyncing.
ManualSyncStart ==
    /\ sync.pc = "idle"
    /\ HasMissing
    /\ ~isSyncing
    /\ isSyncing' = TRUE
    /\ sync' = [NoSync EXCEPT !.pc = "fetching", !.localOrders = localStore]
    /\ UNCHANGED <<cloud, localStore, invoices, inventory, dbError, loads, saves,
                   clock, lastLoad, deletes, replayed>>
    /\ UNCHANGED engineVars

\* handleManualSync: fetchOrders answered null.
ManualSyncFetchFails ==
    /\ sync.pc = "fetching"
    /\ dbError' = TRUE
    /\ isSyncing' = FALSE
    /\ sync' = NoSync
    /\ UNCHANGED <<cloud, localStore, invoices, inventory, loads, saves, clock,
                   lastLoad, deletes, replayed>>
    /\ UNCHANGED engineVars

\* handleManualSync: fetchOrders answered; up to  await bulkInsertOrders(...)
\* or, with nothing missing, to the end.
ManualSyncFetched ==
    /\ sync.pc = "fetching"
    /\ LET cloudOrders == fetchOrders(cloud)
           missingInCloud == UnsyncedLocalOrders(cloudOrders, sync.localOrders)
       IN  IF Len(missingInCloud) = 0
           THEN /\ isSyncing' = FALSE
                /\ sync' = NoSync
           ELSE /\ sync' = [sync EXCEPT !.pc = "inserting",
                                        !.missingInCloud = missingInCloud]
                /\ UNCHANGED isSyncing
    /\ UNCHANGED <<cloud, localStore, invoices, inventory, dbError, loads, saves,
                   clock, lastLoad, deletes, replayed>>
    /\ UNCHANGED engineVars

\* handleManualSync: the bulk upsert succeeded; up to the await inside the
\* loadData it calls.
ManualSyncInserted(k) ==
    /\ sync.pc = "inserting"
    /\ loads[k].pc = "idle"
    /\ cloud' = BulkUpsert(cloud, [i \in 1..Len(sync.missingInCloud) |->
                                      mapOrderToDB(sync.missingInCloud[i])])
    /\ isSyncing' = TRUE
    /\ loads' = [loads EXCEPT ![k] = [NoLoad EXCEPT !.pc = "fetching"]]
    /\ sync' = [sync EXCEPT !.pc = "loading", !.load = k]
    /\ UNCHANGED <<localStore, invoices, inventory, dbError, saves, clock,
                   lastLoad, deletes, replayed>>
    /\ UNCHANGED engineVars

\* handleManualSync: the bulk upsert failed.
ManualSyncInsertFails ==
    /\ sync.pc = "inserting"
    /\ isSyncing' = FALSE
    /\ sync' = NoSync
    /\ UNCHANGED <<cloud, localStore, invoices, inventory, dbError, loads, saves,
                   clock, lastLoad, deletes, replayed>>
    /\ UNCHANGED engineVars

\* confirmDelete up to  await deleteOrderFromSupabase(deleteId); the modal
\* holds one deleteId, taken from a displayed invoice, and stays open until
\* confirmDelete has ended, the loadData it awaits included.
ConfirmDelete(id) ==
    /\ deletes = {}
    /\ \A k \in 1..MaxLoads : loads[k].after = 0
    /\ id \in Ids(invoices)
    /\ deletes' = {id}
    /\ UNCHANGED <<cloud, localStore, invoices, inventory, dbError, isSyncing,
                   loads, saves, clock, lastLoad, sync, replayed>>
    /\ UNCHANGED engineVars

\* confirmDelete: the row is deleted; up to the await inside the loadData
\* it calls.
DeleteSucceeds(id, k) ==
    /\ id \in deletes
    /\ loads[k].pc = "idle"
    /\ cloud' = SelectSeq(cloud, LAMBDA r : r.id # id)
    /\ deletes' = deletes \ {id}
    /\ isSyncing' = TRUE
    /\ loads' = [loads EXCEPT ![k] = [NoLoad EXCEPT !.pc = "fetching", !.after = id]]
    /\ UNCHANGED <<localStore, invoices, inventory, dbError, saves, clock,
                   lastLoad, sync, replayed>>
    /\ UNCHANGED engineVars

\* confirmDelete: the deletion failed; a toast is all that happens.
DeleteFails(id) ==
    /\ id \in deletes
    /\ deletes' = deletes \ {id}
    /\ UNCHANGED <<cloud, localStore, invoices, inventory, dbError, isSyncing,
                   loads, saves, clock, lastLoad, sync, replayed>>
    /\ UNCHANGED engineVars

\* An entry of any quantity the form's field takes.
FormEntry == \E id \in 1..MaxId, qty \in FormQuantities : HandleAddInvoice(id, qty)

NextSession ==
    \/ NextApp
    \/ FormEntry
    \/ ManualSyncStart
    \/ ManualSyncFetchFails
    \/ ManualSyncFetched
    \/ \E k \in 1..MaxLoads : ManualSyncInserted(k)
    \/ ManualSyncInsertFails
    \/ \E id \in 1..MaxId : ConfirmDelete(id)
    \/ \E id \in deletes, k \in 1..MaxLoads : DeleteSucceeds(id, k)
    \/ \E id \in deletes : DeleteFails(id)

NoResult == [set |-> FALSE, sorted |-> <<>>,
             updatedInvoices |-> <<>>, updatedInventory |-> <<>>]

\* Variant: the lot list outlives the call (a module-level array).
InventoryKept(left) == left

\* let currentInventory: InventoryBatch[] = []  -- a local, fresh in each call
InitialInventory(left) == <<>>

EngineIdle ==
    /\ pc = "idle"
    /\ sorted = <<>>
    /\ idx = 0
    /\ currentInventory = <<>>
    /\ processedInvoices = <<>>
    /\ remainingToSell = 0
    /\ totalCOGS = 0
    /\ consumptionLog = <<>>
    /\ bidx = 0
    /\ drawn = <<>>
    /\ lotsAtSale = <<>>

\* A session opens on stores filled by earlier sessions: the table holds the
\* rows of ids 1..c, the cache the form-stamped transactions of ids a..b, so
\* that the two are disjoint, overlap, or one holds the other.
InitApp ==
    /\ \E c \in 0..MaxId :
          cloud = [i \in 1..c |-> mapOrderToDB(IdRun(1, c, LAMBDA id : 0)[i])]
    /\ \E a \in 1..MaxId, b \in 1..MaxId :
          localStore = IdRun(a, b, LAMBDA id : id)
    /\ invoices = <<>>
    /\ inventory = <<>>
    /\ dbError = FALSE
    /\ isSyncing = FALSE
    /\ loads = [k \in 1..MaxLoads |-> NoLoad]
    /\ saves = {}
    /\ clock = MaxId + 1
    /\ lastLoad = NoLastLoad
    /\ sync = NoSync
    /\ deletes = {}
    /\ replayed = <<>>
    /\ ledger = {}
    /\ prev = NoResult
    /\ EngineIdle

InitOrder ==
    /\ AppIdle
    /\ \E n \in 0..MaxTx : \E f \in [1..n -> OrderChoices] :
          ledger = OrderLedger(n, f)
    /\ prev = NoResult
    /\ EngineIdle

InitFifo ==
    /\ AppIdle
    /\ \/ \E n \in 0..MaxTx : \E f \in [1..n -> FifoChoices] :
             ledger = FifoLedger(n, f)
       \/ ledger \in {ExampleLedger, StockoutLedger}
       \/ \E t \in TaxableChoices, u \in TaxableChoices : ledger = TaxableLedger(t, u)
       \/ \E first \in Types, p \in 1..MaxQty, s \in 1..MaxQty :
             ledger = SameDayLedger(first, p, s)
    /\ prev = NoResult
    /\ EngineIdle

\* The caller hands the transactions over in some order; the copy is sorted.
Call ==
    /\ pc = "idle"
    /\ \E allInvoices \in Orderings(ledger) :
          sorted' = SortInvoices(allInvoices)
    /\ pc' = "loop"
    /\ idx' = 1
    /\ currentInventory' = InitialInventory(prev.updatedInventory)
    /\ drawn' = [j \in 1..Len(currentInventory') |-> 0]
    /\ UNCHANGED <<ledger, processedInvoices, remainingToSell,
                   totalCOGS, consumptionLog, bidx, prev, lotsAtSale>>
    /\ UNCHANGED appVars

\* for (const inv of sorted): the PURCHASE branch.
PurchaseStep ==
    /\ pc = "loop"
    /\ idx <= Len(sorted)
    /\ IsPurchase(sorted[idx])
    /\ currentInventory' = Append(currentInventory, NewBatch(sorted[idx]))
    /\ processedInvoices' = Append(processedInvoices, ProcessedPurchase(sorted[idx]))
    /\ drawn' = Append(drawn, 0)
    /\ idx' = idx + 1
    /\ UNCHANGED <<ledger, pc, sorted, remainingToSell, totalCOGS, consumptionLog,
                   bidx, prev, lotsAtSale>>
    /\ UNCHANGED appVars

\* The else branch up to the loop over the lots.
SaleBegin ==
    /\ pc = "loop"
    /\ idx <= Len(sorted)
    /\ ~IsPurchase(sorted[idx])
    /\ LET fr == SaleEntry(sorted[idx], currentInventory)
       IN  /\ remainingToSell' = fr.need
           /\ totalCOGS' = fr.cogs
           /\ consumptionLog' = fr.log
    /\ bidx' = 1
    /\ lotsAtSale' = currentInventory
    /\ pc' = "sale"
    /\ UNCHANGED <<ledger, sorted, idx, currentInventory, processedInvoices, prev, drawn>>
    /\ UNCHANGED appVars

\* One iteration of the loop over the lots.
SaleIterate ==
    /\ pc = "sale"
    /\ bidx <= Len(currentInventory)
    /\ ~LoopBreak(remainingToSell)
    /\ LET fr == LoopBody(Frame(currentInventory, remainingToSell, totalCOGS,
                                consumptionLog, 0), bidx, sorted[idx])
       IN  /\ currentInventory' = fr.lots
           /\ remainingToSell' = fr.need
           /\ totalCOGS' = fr.cogs
           /\ consumptionLog' = fr.log
           /\ drawn' = [drawn EXCEPT ![bidx] = @ + fr.take]
    /\ bidx' = bidx + 1
    /\ UNCHANGED <<ledger, pc, sorted, idx, processedInvoices, prev, lotsAtSale>>
    /\ UNCHANGED appVars

\* The loop over the lots is left: stockout test, profit, push.
SaleEnd ==
    /\ pc = "sale"
    /\ (bidx > Len(currentInventory) \/ LoopBreak(remainingToSell))
    /\ processedInvoices' =
          Append(processedInvoices,
                 ProcessedSale(sorted[idx],
                               Frame(currentInventory, remainingToSell, totalCOGS,
                                     consumptionLog, 0)))
    /\ idx' = idx + 1
    /\ pc' = "loop"
    /\ remainingToSell' = 0
    /\ totalCOGS' = 0
    /\ consumptionLog' = <<>>
    /\ bidx' = 0
    /\ UNCHANGED <<ledger, sorted, currentInventory, prev, drawn, lotsAtSale>>
    /\ UNCHANGED appVars

\* return { updatedInvoices: processedInvoices, updatedInventory: currentInventory }
Return ==
    /\ pc = "loop"
    /\ idx > Len(sorted)
    /\ pc' = "done"
    /\ UNCHANGED <<ledger, sorted, idx, currentInventory, processedInvoices,
                   remainingToSell, totalCOGS, consumptionLog, bidx, prev, drawn,
                   lotsAtSale>>
    /\ UNCHANGED appVars

\* The caller keeps the result; the engine's locals are gone.
Again ==
    /\ pc = "done"
    /\ prev' = [set |-> TRUE, sorted |-> sorted,
                updatedInvoices |-> processedInvoices,
                updatedInventory |-> currentInventory]
    /\ pc' = "idle"
    /\ sorted' = <<>>
    /\ idx' = 0
    /\ currentInventory' = <<>>
    /\ processedInvoices' = <<>>
    /\ drawn' = <<>>
    /\ lotsAtSale' = <<>>
    /\ UNCHANGED <<ledger, remainingToSell, totalCOGS, consumptionLog, bidx>>
    /\ UNCHANGED appVars

\* One call of recalculateAllData.
NextReplay ==
    \/ Call
    \/ PurchaseStep
    \/ SaleBegin
    \/ SaleIterate
    \/ SaleEnd
    \/ Return

\* Call after call on the same set.
NextEngine ==
    \/ NextReplay
    \/ Again

\* The engine on the ordering family.
Spec == InitOrder /\ [][NextEngine]_vars

\* The engine on the quantity family and the worked examples.
SpecFifo == InitFifo /\ [][NextReplay]_vars

\* The engine called again and again on the quantity family.
SpecTwice == InitFifo /\ [][NextEngine]_vars

\* The application: loads and additions interleaving at their awaits.
SpecApp == InitApp /\ [][NextApp]_vars

\* The application with every handler and every entry the form accepts.
SpecSession == InitApp /\ [][NextSession]_vars


(***************************************************************************)
(* Vocabulary of the properties.                                           *)
(***************************************************************************)
Last(s) == s[Len(s)]

\* A sale is being replayed, or has just been replayed and nothing since.
InSale == pc = "sale"

AfterSale ==
    /\ pc \in {"loop", "done"}
    /\ processedInvoices # <<>>
    /\ ~IsPurchase(Last(processedInvoices))

\* The sale the history variable lotsAtSale belongs to.
TheSale == IF InSale THEN sorted[idx] ELSE Last(processedInvoices)

DrawLines(log) == SelectSeq(log, LAMBDA l : l.kind = "DRAW")

StockoutLines(log) == SelectSeq(log, LAMBDA l : l.kind = "STOCKOUT")

RECURSIVE SumGrams(_)
SumGrams(lines) ==
    IF lines = <<>> THEN 0 ELSE lines[1].grams + SumGrams(Tail(lines))

RECURSIVE SumCost(_)
SumCost(lines) ==
    IF lines = <<>> THEN 0
    ELSE lines[1].grams * lines[1].rate + SumCost(Tail(lines))

RECURSIVE SumRemaining(_)
SumRemaining(lots) ==
    IF lots = <<>> THEN 0 ELSE lots[1].remainingQuantity + SumRemaining(Tail(lots))

FirstOpen(lots, i) ==
    /\ lots[i].remainingQuantity > EPS
    /\ \A k \in 1..(i - 1) : lots[k].remainingQuantity <= EPS

(***************************************************************************)
(* C1.  Determinism under permutation: two calls of recalculateAllData on  *)
(* the same set of transactions (distinct ids), handed over in any two     *)
(* orders, return the same cogs, profit and consumption log for every      *)
(* transaction and the same final lot list.                                *)
(***************************************************************************)
C1_Determinism ==
    (pc = "done" /\ prev.set) =>
        /\ Range(processedInvoices) = Range(prev.updatedInvoices)
        /\ currentInventory = prev.updatedInventory

(***************************************************************************)
(* C2.  The comparator is a strict total order on transactions with        *)
(* distinct ids: never 0 for two different transactions, antisymmetric,    *)
(* and transitive, whatever mix of present and absent createdAt.           *)
(***************************************************************************)
C2_StrictTotalOrder ==
    pc # "idle" =>
        \A a, b, c \in Range(sorted) :
            /\ (a # b => compareFn(a, b) # 0)
            /\ compareFn(a, b) = -compareFn(b, a)
            /\ (compareFn(a, b) < 0 /\ compareFn(b, c) < 0 => compareFn(a, c) < 0)

(***************************************************************************)
(* C3.  FIFO ordering.  For lots A before B in the list, both above the    *)
(* tolerance when a sale begins, with A able to satisfy the sale alone,    *)
(* the sale leaves B as it was; when A is the first lot above the          *)
(* tolerance the sale draws from A only (one audit line, for the whole     *)
(* quantity, no other lot changed).  In general a sale reduces a lot only  *)
(* after it has drained to 0 every earlier lot that was above the          *)
(* tolerance.                                                              *)
(***************************************************************************)
C3_FifoOrdering ==
    (InSale \/ AfterSale) =>
        LET n == Len(lotsAtSale)
            q == TheSale.quantityGrams
        IN  /\ Len(currentInventory) = n
            /\ \A i, j \in 1..n :
                  (/\ i < j
                   /\ lotsAtSale[i].remainingQuantity > EPS
                   /\ lotsAtSale[j].remainingQuantity > EPS
                   /\ lotsAtSale[i].remainingQuantity >= q)
                  => currentInventory[j] = lotsAtSale[j]
            /\ \A i \in 1..n :
                  (AfterSale /\ FirstOpen(lotsAtSale, i)
                             /\ lotsAtSale[i].remainingQuantity >= q)
                  => /\ DrawLines(Last(processedInvoices).fifoLog)
                          = <<AuditLine(q, lotsAtSale[i])>>
                     /\ \A k \in 1..n : k # i => currentInventory[k] = lotsAtSale[k]
            /\ \A i, j \in 1..n :
                  (/\ i < j
                   /\ currentInventory[j].remainingQuantity
                          < lotsAtSale[j].remainingQuantity
                   /\ lotsAtSale[i].remainingQuantity > EPS)
                  => currentInventory[i].remainingQuantity = 0

\* A sale satisfied by the first of two open lots has been replayed.
C3_Witness ==
    /\ AfterSale
    /\ \E i, j \in 1..Len(lotsAtSale) :
          /\ i < j
          /\ FirstOpen(lotsAtSale, i)
          /\ lotsAtSale[j].remainingQuantity > EPS
          /\ lotsAtSale[i].remainingQuantity >= TheSale.quantityGrams
          /\ currentInventory[i] # lotsAtSale[i]

C5_Conservation ==
    /\ Len(drawn) = Len(currentInventory)
    /\ \A i \in 1..Len(currentInventory) :
          LET residue == (currentInventory[i].originalQuantity
                            - currentInventory[i].remainingQuantity) - drawn[i]
          IN  0 <= residue /\ residue < EPS

\* A replay has ended with one lot snapped to 0 over a residue and another
\* lot consumed in full.
C5_Witness ==
    /\ pc = "done"
    /\ \E i, j \in 1..Len(currentInventory) :
          /\ currentInventory[i].remainingQuantity = 0
          /\ 0 < drawn[i]
          /\ drawn[i] < currentInventory[i].originalQuantity
          /\ drawn[j] = currentInventory[j].originalQuantity


(***************************************************************************)
(* C6.  The cogs of a sale is the running sum, over the lots it drew from, *)
(* of chunk x the lot's own unit cost (the rate of the purchase that made  *)
(* the lot).  For purchases of 100 g at 5,000 and 50 g at 5,200 and a sale *)
(* of 120 g: cogs = 604,000, lot 1 closed at 0, lot 2 left with 30 g.      *)
(* (Rates count 100 rupees, quantities ticks: 604,000 rupee-grams are      *)
(* 6,040 x TicksPerGram.)                                                  *)
(***************************************************************************)
C6_CogsRunningSum ==
    /\ AfterSale =>
          LET sale == Last(processedInvoices)
              lines == DrawLines(sale.fifoLog)
              \* the lots the sale changed, in list order
              from == SelectSeq([j \in 1..Len(lotsAtSale) |-> j],
                                LAMBDA j : currentInventory[j] # lotsAtSale[j])
          IN  /\ sale.cogs = SumCost(lines)
              /\ Len(lines) = Len(from)
              /\ \A k \in 1..Len(lines) :
                    /\ lines[k].rate = lotsAtSale[from[k]].costPerGram
                    /\ lines[k].date = lotsAtSale[from[k]].date
                    /\ lines[k].grams > 0
                    /\ lines[k].grams <= lotsAtSale[from[k]].remainingQuantity
                    /\ \E p \in ledger : /\ IsPurchase(p)
                                         /\ p.id = lotsAtSale[from[k]].id
                                         /\ p.ratePerGram = lines[k].rate
    /\ (ledger = ExampleLedger /\ pc = "done") =>
          /\ Len(processedInvoices) = 3
          /\ processedInvoices[3].cogs = 6040 * TicksPerGram
          /\ Len(currentInventory) = 2
          /\ currentInventory[1].remainingQuantity = 0
          /\ currentInventory[1].closedDate = 3
          /\ currentInventory[2].remainingQuantity = 30 * TicksPerGram
          /\ currentInventory[2].closedDate = 0

\* The worked example has been replayed to its end.
C6_Witness ==
    /\ ledger = ExampleLedger
    /\ pc = "done"
    /\ Len(DrawLines(processedInvoices[3].fifoLog)) = 2

(***************************************************************************)
(* C7.  A stockout is absorbed.  When a sale's quantity exceeds the total  *)
(* remainingQuantity of all lots by more than the tolerance, the sale's    *)
(* cogs is the cost of what was consumed, every lot that was above the     *)
(* tolerance ends at 0, and the log holds one stockout warning naming the  *)
(* unmet quantity (sale quantity minus quantity consumed); a sale whose    *)
(* unmet quantity is at or below the tolerance gets no warning; and the    *)
(* replay goes on to process every transaction.                            *)
(***************************************************************************)
C7_StockoutAbsorbed ==
    /\ AfterSale =>
          LET sale == Last(processedInvoices)
              lines == DrawLines(sale.fifoLog)
              unmet == sale.quantityGrams - SumGrams(lines)
              n == Len(lotsAtSale)
          IN  /\ sale.quantityGrams > SumRemaining(lotsAtSale) + EPS =>
                    /\ StockoutLines(sale.fifoLog) = <<LogLine("STOCKOUT", unmet, 0, 0)>>
                    /\ Last(sale.fifoLog).kind = "STOCKOUT"
                    /\ sale.cogs = SumCost(lines)
                    /\ \A j \in 1..n :
                          lotsAtSale[j].remainingQuantity > EPS =>
                              /\ currentInventory[j].remainingQuantity = 0
                              /\ \E k \in 1..Len(lines) :
                                    lines[k] = AuditLine(lotsAtSale[j].remainingQuantity,
                                                         lotsAtSale[j])
                    /\ SumGrams(lines) = SumSeq([j \in 1..n |->
                            IF lotsAtSale[j].remainingQuantity > EPS
                            THEN lotsAtSale[j].remainingQuantity ELSE 0])
              /\ unmet <= EPS => StockoutLines(sale.fifoLog) = <<>>
    /\ pc = "done" =>
          {r.id : r \in Range(processedInvoices)} = {t.id : t \in ledger}
    /\ (ledger = StockoutLedger /\ pc = "done") =>
          /\ processedInvoices[2].cogs = 10 * TicksPerGram * 50
          /\ StockoutLines(processedInvoices[2].fifoLog)
                = <<LogLine("STOCKOUT", 5 * TicksPerGram, 0, 0)>>

\* A replay has ended in which a sale drained an open lot, was left short by
\* more than the tolerance, and a later transaction was still processed.
C7_Witness ==
    /\ pc = "done"
    /\ \E k \in 1..Len(processedInvoices) :
          /\ k < Len(processedInvoices)
          /\ ~IsPurchase(processedInvoices[k])
          /\ DrawLines(processedInvoices[k].fifoLog) # <<>>
          /\ StockoutLines(processedInvoices[k].fifoLog) # <<>>

(***************************************************************************)
(* Vocabulary of the reconciler's properties.                              *)
(***************************************************************************)
\* The ids of the local transactions that the fetched list does not hold.
UnsyncedIds(remote, local) == Ids(local) \ Ids(remote)

\* The fields of r that s has too, with the same values.
Carries(r, s) == \A f \in DOMAIN s : f \in DOMAIN r /\ r[f] = s[f]

\* The displayed invoices are the replay of exactly these orders.
Shows(shown, orders) ==
    /\ Len(shown) = Len(orders)
    /\ \A i \in 1..Len(orders) :
          \E j \in 1..Len(shown) :
             Carries(shown[j], [f \in DOMAIN orders[i] \ {"cogs", "profit"}
                                   |-> orders[i][f]])

(***************************************************************************)
(* C8.  No unsynced local write is dropped.  Whenever a loadData resumes   *)
(* from a fetch that succeeded, the candidate set it replays is, by id,    *)
(* the fetched list united with the local transactions whose id is not in  *)
(* it; it has |remote| + |unsynced| members, each taken from its source    *)
(* unchanged; it is the fetched list itself when nothing is unsynced and   *)
(* the local list when the fetched list is empty and the local one is not; *)
(* and what is then displayed is the replay of that candidate set.         *)
(***************************************************************************)
C8_NoUnsyncedDropped ==
    [][\A k \in 1..MaxLoads :
          (LoadDataResume(k) /\ loads[k].ok) =>
             LET remote == loads[k].rows
                 local == localStore
                 unsynced == UnsyncedIds(remote, local)
                 candidate == lastLoad'.finalOrders
             IN  /\ Ids(candidate) = Ids(remote) \cup unsynced
                 /\ Len(candidate) = Len(remote) + Cardinality(unsynced)
                 /\ \A i \in 1..Len(candidate) :
                       \/ candidate[i] \in Range(remote)
                       \/ candidate[i] \in Range(local) /\ candidate[i].id \in unsynced
                 /\ unsynced = {} => candidate = remote
                 /\ (remote = <<>> /\ local # <<>>) => candidate = local
                 /\ Shows(invoices', candidate)]_vars

\* A load has completed on a non-empty fetched list that held some of the
\* local ids and lacked others, and its replay is what is displayed.
C8_Witness ==
    /\ lastLoad.done /\ lastLoad.ok
    /\ lastLoad.cloudOrders # <<>>
    /\ UnsyncedIds(lastLoad.cloudOrders, lastLoad.localOrders) # {}
    /\ Ids(lastLoad.localOrders) \cap Ids(lastLoad.cloudOrders) # {}
    /\ Shows(invoices, lastLoad.finalOrders)
    /\ Len(invoices) = Len(lastLoad.cloudOrders)
                        + Cardinality(UnsyncedIds(lastLoad.cloudOrders,
                                                  lastLoad.localOrders))

(***************************************************************************)
(* C9.  Needs-sync signal.  Whenever what is displayed is the replay of a  *)
(* candidate set in which a successful, non-empty fetched list was merged  *)
(* with at least one unsynced local transaction, hasMissing is true; in    *)
(* particular with 2 fetched transactions and 3 local ones of which one id *)
(* is not among the fetched.                                               *)
(***************************************************************************)
MergedShown ==
    /\ lastLoad.done /\ lastLoad.ok
    /\ lastLoad.cloudOrders # <<>>
    /\ UnsyncedIds(lastLoad.cloudOrders, lastLoad.localOrders) # {}
    /\ lastLoad.localOrders = localStore
    /\ Shows(invoices, lastLoad.finalOrders)

C9_NeedsSyncSignal == MergedShown => HasMissing

\* The worked case of the signal: 2 fetched, 3 local, one id not fetched.
C9_Example ==
    /\ MergedShown
    /\ Len(lastLoad.cloudOrders) = 2
    /\ Len(lastLoad.localOrders) = 3
    /\ Cardinality(UnsyncedIds(lastLoad.cloudOrders, lastLoad.localOrders)) = 1
    /\ Len(invoices) = 3

(***************************************************************************)
(* C10.  Degraded fallback.  When a loadData resumes from a fetch that     *)
(* failed, it replays exactly the local list and leaves dbError true; when *)
(* it resumes from a fetch that succeeded, with an empty list included, it *)
(* leaves dbError false and replays the reconciled candidate set.  So at   *)
(* the completion of any loadData, dbError is true if and only if that     *)
(* load's fetch failed.                                                    *)
(***************************************************************************)
C10_DegradedFallback ==
    [][\A k \in 1..MaxLoads :
          LoadDataResume(k) =>
             /\ dbError' = ~loads[k].ok
             /\ ~loads[k].ok =>
                   /\ lastLoad'.finalOrders = localStore
                   /\ Shows(invoices', localStore)
             /\ loads[k].ok =>
                   /\ Ids(lastLoad'.finalOrders)
                         = Ids(loads[k].rows) \cup Ids(localStore)
                   /\ Shows(invoices', lastLoad'.finalOrders)
             /\ isSyncing' = FALSE]_vars

\* A load whose fetch failed has completed on a non-empty local list while
\* the table held rows: the local list is displayed and dbError is set.
C10_Witness ==
    /\ lastLoad.done /\ ~lastLoad.ok
    /\ dbError
    /\ lastLoad.localOrders # <<>>
    /\ cloud # <<>>
    /\ Shows(invoices, lastLoad.localOrders)

\* The members of a list that carry this id.
WithId(orders, id) == SelectSeq(orders, LAMBDA o : o.id = id)

(***************************************************************************)
(* C11.  Deduplication prefers remote.  The fetched list and the local     *)
(* list each holding an id at most once, the candidate set a loadData      *)
(* builds holds no id twice, and for every id held by both lists the       *)
(* candidate's copy is the fetched one.                                    *)
(***************************************************************************)
C11_DedupPrefersRemote ==
    [][\A k \in 1..MaxLoads :
          LoadDataResume(k) =>
             LET remote == loads[k].rows
                 local == localStore
                 candidate == lastLoad'.finalOrders
             IN  /\ \A id \in Ids(candidate) : Len(WithId(candidate, id)) = 1
                 /\ loads[k].ok =>
                       \A id \in Ids(remote) \cap Ids(local) :
                          WithId(candidate, id) = WithId(remote, id)]_vars

\* A load has completed on a fetched list and a local list that share an id
\* under different copies, and hold an id each that the other lacks.
C11_Witness ==
    /\ lastLoad.done /\ lastLoad.ok
    /\ \E id \in Ids(lastLoad.cloudOrders) \cap Ids(lastLoad.localOrders) :
          /\ WithId(lastLoad.cloudOrders, id) # WithId(lastLoad.localOrders, id)
          /\ WithId(lastLoad.finalOrders, id) = WithId(lastLoad.cloudOrders, id)
    /\ UnsyncedIds(lastLoad.cloudOrders, lastLoad.localOrders) # {}
    /\ UnsyncedIds(lastLoad.localOrders, lastLoad.cloudOrders) # {}

\* A transaction is well formed: positive quantity and a known kind (an id
\* is always present, generateId supplies it).
WellFormed(inv) == inv.quantityGrams > 0 /\ inv.type \in Types

(***************************************************************************)
(* C12.  Malformed transactions are rejected before sequencing.  No        *)
(* transaction with a non-positive quantity or an unknown kind is ever     *)
(* among the replayed (hence displayed) invoices, whether it came through  *)
(* InvoiceForm.handleSubmit or through the lists loadData reads.           *)
(***************************************************************************)
C12_MalformedRejected ==
    /\ \A i \in 1..Len(invoices) : WellFormed(invoices[i])
    /\ \A i \in 1..Len(inventory) : inventory[i].originalQuantity > 0
    /\ \A i \in 1..Len(cloud) : cloud[i].quantity_grams > 0

(***************************************************************************)
(* C13.  Profit.  A processed sale's profit is its taxableAmount minus its *)
(* cogs when taxableAmount is present and non-zero, and quantity x rate    *)
(* minus cogs when taxableAmount is absent or zero; a processed purchase's *)
(* profit is 0.                                                            *)
(***************************************************************************)
C13_Profit ==
    \A i \in 1..Len(processedInvoices) :
       LET r == processedInvoices[i]
       IN  /\ IsPurchase(r) => r.profit = 0
           /\ (~IsPurchase(r) /\ r.taxableAmount # 0) =>
                 r.profit = r.taxableAmount - r.cogs
           /\ (~IsPurchase(r) /\ r.taxableAmount = 0) =>
                 r.profit = r.quantityGrams * r.ratePerGram - r.cogs

\* A replay has ended with a purchase, a sale without taxableAmount and a
\* sale whose taxableAmount is not quantity x rate, both sales having drawn.
C13_Witness ==
    /\ pc = "done"
    /\ \E i, j, k \in 1..Len(processedInvoices) :
          LET p == processedInvoices[i]
              a == processedInvoices[j]
              b == processedInvoices[k]
          IN  /\ IsPurchase(p)
              /\ ~IsPurchase(a) /\ a.taxableAmount = 0 /\ a.cogs > 0
              /\ a.profit = a.quantityGrams * a.ratePerGram - a.cogs
              /\ ~IsPurchase(b) /\ b.taxableAmount # 0 /\ b.cogs > 0
              /\ b.taxableAmount # b.quantityGrams * b.ratePerGram
              /\ b.profit = b.taxableAmount - b.cogs

\* The ids of a list, in its order.
IdSeq(s) == [i \in 1..Len(s) |-> s[i].id]

(***************************************************************************)
(* C14.  Purchase replay.  Each PURCHASE appends exactly one lot at the    *)
(* end of the lot list, with the purchase's id, originalQuantity =         *)
(* remainingQuantity = quantity, costPerGram = rate, date = the purchase's *)
(* date and no closedDate; it changes no existing lot; the purchase's own  *)
(* cogs and profit are 0 and its log is empty.  No step of a replay        *)
(* removes a lot, and the lots are at all times, one to one and in order,  *)
(* the purchases processed so far: after the replay, one per PURCHASE of   *)
(* the input.                                                              *)
(***************************************************************************)
C14_PurchaseReplay ==
    /\ [](/\ IdSeq(currentInventory) = IdSeq(SelectSeq(processedInvoices, IsPurchase))
          /\ pc = "done" =>
                Len(currentInventory) = Cardinality({t \in ledger : IsPurchase(t)}))
    /\ [][/\ (pc = "loop" /\ idx' = idx + 1 /\ IsPurchase(sorted[idx])) =>
                LET inv == sorted[idx]
                    lot == Last(currentInventory')
                    out == Last(processedInvoices')
                IN  /\ Len(currentInventory') = Len(currentInventory) + 1
                    /\ SubSeq(currentInventory', 1, Len(currentInventory))
                          = currentInventory
                    /\ lot.id = inv.id
                    /\ lot.originalQuantity = inv.quantityGrams
                    /\ lot.remainingQuantity = inv.quantityGrams
                    /\ lot.costPerGram = inv.ratePerGram
                    /\ lot.date = inv.date
                    /\ lot.closedDate = 0
                    /\ out.id = inv.id
                    /\ out.cogs = 0 /\ out.profit = 0 /\ out.fifoLog = <<>>
          /\ Len(currentInventory') >= Len(currentInventory)
          /\ \A j \in 1..Len(currentInventory) :
                currentInventory'[j].id = currentInventory[j].id]_vars

\* A replay has ended in which a purchase was processed after a sale had
\* drawn on an earlier lot: two lots, the first one partly or wholly used.
C14_Witness ==
    /\ pc = "done"
    /\ Len(currentInventory) >= 2
    /\ currentInventory[1].remainingQuantity < currentInventory[1].originalQuantity
    /\ Last(currentInventory).remainingQuantity = Last(currentInventory).originalQuantity
    /\ \E i \in 1..Len(processedInvoices) :
          /\ i > 1
          /\ IsPurchase(processedInvoices[i])
          /\ ~IsPurchase(processedInvoices[i - 1])

(***************************************************************************)
(* C15.  The sale walk stops at the tolerance.  While a sale is replayed,  *)
(* once its unmet need is at or below the tolerance, no further step of    *)
(* the walk reduces a lot or writes an audit line.                         *)
(***************************************************************************)
C15_WalkStopsAtEpsilon ==
    [][(pc = "sale" /\ pc' = "sale" /\ remainingToSell <= EPS) =>
          /\ currentInventory' = currentInventory
          /\ consumptionLog' = consumptionLog]_vars

(***************************************************************************)
(* C16.  closedDate matches zero within tolerance.  At the end of every    *)
(* replay, every lot whose remainingQuantity is at or below the tolerance  *)
(* has remainingQuantity exactly 0 and a closedDate, and every lot without *)
(* a closedDate has remainingQuantity above the tolerance.                 *)
(***************************************************************************)
C16_ClosedMatchesZero ==
    pc = "done" =>
       \A j \in 1..Len(currentInventory) :
          LET lot == currentInventory[j]
          IN  /\ lot.remainingQuantity <= EPS =>
                    (lot.remainingQuantity = 0 /\ lot.closedDate # 0)
              /\ lot.closedDate = 0 => lot.remainingQuantity > EPS

\* The two residues the claim names: a lot that a sale left at exactly the
\* tolerance, and a lot opened by a purchase of at most the tolerance, each
\* open at the end of the replay.
C16_ResidueLeftBySale ==
    /\ pc = "done"
    /\ \E j \in 1..Len(currentInventory) :
          /\ currentInventory[j].originalQuantity > EPS
          /\ currentInventory[j].remainingQuantity = EPS
          /\ currentInventory[j].closedDate = 0

C16_ResidueFromPurchase ==
    /\ pc = "done"
    /\ \E j \in 1..Len(currentInventory) :
          /\ currentInventory[j].originalQuantity <= EPS
          /\ currentInventory[j].remainingQuantity = currentInventory[j].originalQuantity
          /\ currentInventory[j].closedDate = 0

(***************************************************************************)
(* C17.  Lot closing step.  Whenever a draw of a sale leaves a lot's       *)
(* remainingQuantity below the tolerance, the lot's remainingQuantity is   *)
(* set to exactly 0 and its closedDate to that sale's date; from then on   *)
(* no step of the replay draws from the lot or changes its closedDate.     *)
(***************************************************************************)
C17_LotClosing ==
    [][\A j \in 1..Len(currentInventory) :
          LET old == currentInventory[j]
              new == currentInventory'[j]
              chunk == drawn'[j] - drawn[j]
          IN  /\ (pc = "sale" /\ chunk > 0 /\ old.remainingQuantity - chunk < EPS) =>
                    /\ new.remainingQuantity = 0
                    /\ new.closedDate = sorted[idx].date
              /\ old.closedDate # 0 =>
                    /\ new = old
                    /\ chunk = 0]_vars

\* A replay has ended in which a sale's draw left a residue under the
\* tolerance in a lot, which was closed on that sale's date, and a later
\* sale has walked past the closed lot.
C17_Witness ==
    /\ pc = "done"
    /\ \E j \in 1..Len(currentInventory), k \in 1..Len(processedInvoices) :
          /\ k < Len(processedInvoices)
          /\ ~IsPurchase(processedInvoices[k])
          /\ ~IsPurchase(Last(processedInvoices))
          /\ currentInventory[j].closedDate = processedInvoices[k].date
          /\ currentInventory[j].remainingQuantity = 0
          /\ 0 < drawn[j] /\ drawn[j] < currentInventory[j].originalQuantity

(***************************************************************************)
(* C18.  Atomic replacement under concurrency.  Under any interleaving of  *)
(* loadData, handleManualSync, confirmDelete and handleAddInvoice, each    *)
(* suspended only at its awaits, the stored pair (invoices, inventory) is  *)
(* at every moment the whole output of one run of recalculateAllData over  *)
(* one list: the invoices are that run's invoices, the lots that run's     *)
(* lots, one lot per displayed purchase.                                   *)
(***************************************************************************)
C18_AtomicReplacement ==
    LET out == recalculateAllData(replayed)
    IN  /\ invoices = Reverse(out.updatedInvoices)
        /\ inventory = out.updatedInventory
        /\ IdSeq(inventory) = IdSeq(SelectSeq(Reverse(invoices), IsPurchase))

\* A load that was in flight while an entry was added has resumed: the pair
\* the addition had stored, lots included, is replaced by the load's, which
\* lacks the entry still being saved.
C18_Witness ==
    /\ lastLoad.done
    /\ replayed = lastLoad.finalOrders
    /\ inventory # <<>>
    /\ \E invoice \in saves : invoice.id \notin Ids(invoices)
    /\ \E i \in 1..Len(invoices) : ~IsPurchase(invoices[i]) /\ invoices[i].cogs > 0

(***************************************************************************)
(* C19.  Idempotence.  A second call of recalculateAllData on the input of *)
(* the first (hence sorting to the same list) returns the same output:     *)
(* the same cogs, profit and log for each transaction and the same lots;   *)
(* nothing the first call left is seen by the second, which starts from an *)
(* empty lot list.                                                         *)
(***************************************************************************)
C19_Idempotence ==
    /\ (pc = "loop" /\ idx = 1) =>
          (currentInventory = <<>> /\ processedInvoices = <<>>)
    /\ (pc = "done" /\ prev.set /\ prev.sorted = sorted) =>
          /\ processedInvoices = prev.updatedInvoices
          /\ currentInventory = prev.updatedInventory

\* A second call on the same list has ended, the first having left a lot
\* drawn on by a sale and closed.
C19_Witness ==
    /\ pc = "done" /\ prev.set /\ prev.sorted = sorted
    /\ \E j \in 1..Len(currentInventory) : currentInventory[j].closedDate # 0
    /\ \E i \in 1..Len(processedInvoices) :
          ~IsPurchase(processedInvoices[i]) /\ processedInvoices[i].cogs > 0
    /\ Len(sorted) = MaxTx

\* The ambiguity warnings of a log.
AmbiguityLines(log) == SelectSeq(log, LAMBDA l : l.kind = "NO_TIMESTAMP")

(***************************************************************************)
(* C20.  Ambiguity warning.  Every processed SALE without createdAt has    *)
(* one ambiguity warning, as the first entry of its log; a SALE with       *)
(* createdAt and every PURCHASE has none; and the replay goes on to        *)
(* process every transaction.                                              *)
(***************************************************************************)
C20_AmbiguityWarning ==
    /\ \A i \in 1..Len(processedInvoices) :
          LET r == processedInvoices[i]
          IN  /\ (~IsPurchase(r) /\ r.createdAt = 0) =>
                    /\ Len(AmbiguityLines(r.fifoLog)) = 1
                    /\ r.fifoLog[1].kind = "NO_TIMESTAMP"
              /\ (~IsPurchase(r) /\ r.createdAt # 0) => AmbiguityLines(r.fifoLog) = <<>>
              /\ IsPurchase(r) => r.fifoLog = <<>>
    /\ pc = "done" => Len(processedInvoices) = Cardinality(ledger)

\* A replay has ended in which a sale without createdAt was warned about,
\* then drew from a lot, and a later transaction was processed.
C20_Witness ==
    /\ pc = "done"
    /\ \E i \in 1..Len(processedInvoices) :
          LET r == processedInvoices[i]
          IN  /\ i < Len(processedInvoices)
              /\ ~IsPurchase(r) /\ r.createdAt = 0
              /\ Len(r.fifoLog) >= 2
              /\ r.fifoLog[1].kind = "NO_TIMESTAMP"
              /\ r.fifoLog[2].kind = "DRAW"

\* The fields recalculateAllData sets on a record.
ComputedFields == {"cogs", "profit", "fifoLog"}

(***************************************************************************)
(* C21.  Output preserves input.  The list recalculateAllData returns has  *)
(* exactly one record per input transaction (the same ids, none dropped,   *)
(* none twice); each record keeps every input field with its value and     *)
(* only cogs, profit and fifoLog are set; the input and its records are    *)
(* not changed by the call.                                                *)
(***************************************************************************)
C21_OutputPreservesInput ==
    /\ [](/\ Len(processedInvoices) <= Len(sorted)
          /\ \A i \in 1..Len(processedInvoices) :
                /\ Carries(processedInvoices[i], sorted[i])
                /\ DOMAIN processedInvoices[i] = DOMAIN sorted[i] \cup ComputedFields
          /\ pc # "idle" =>
                /\ Range(sorted) = ledger
                /\ Len(sorted) = Cardinality(ledger)
          /\ pc = "done" =>
                /\ Len(processedInvoices) = Cardinality(ledger)
                /\ \A t \in ledger :
                      Cardinality({i \in 1..Len(processedInvoices) :
                                      processedInvoices[i].id = t.id}) = 1)
    /\ [][/\ ledger' = ledger
          /\ (pc # "idle" /\ pc' # "idle") => sorted' = sorted
          /\ \A i \in 1..Len(processedInvoices) :
                pc' # "idle" => processedInvoices'[i] = processedInvoices[i]]_vars

\* A replay has ended on three transactions, among them a sale that drew
\* from a lot and whose stored taxableAmount is not quantity x rate: the
\* record returned still carries the stored amount.
C21_Witness ==
    /\ pc = "done"
    /\ Len(processedInvoices) = 3
    /\ \E i \in 1..Len(processedInvoices) :
          LET r == processedInvoices[i]
          IN  /\ ~IsPurchase(r)
              /\ r.cogs > 0
              /\ r.fifoLog # <<>>
              /\ r.taxableAmount # r.quantityGrams * r.ratePerGram
              /\ r \notin ledger
              /\ \E t \in ledger : Carries(r, t)

(***************************************************************************)
(* C22.  Lot monotonicity.  From one step of a replay to the next a lot's  *)
(* remainingQuantity never increases; a lot starts with remainingQuantity  *)
(* equal to its originalQuantity; and a lot's id, originalQuantity,        *)
(* costPerGram (unit cost) and date (opened date) never change after the   *)
(* lot is created.                                                         *)
(***************************************************************************)
C22_LotMonotonicity ==
    [][(pc # "idle" /\ pc' # "idle") =>
          /\ Len(currentInventory') >= Len(currentInventory)
          /\ \A j \in 1..Len(currentInventory) :
                LET old == currentInventory[j]
                    new == currentInventory'[j]
                IN  /\ new.remainingQuantity <= old.remainingQuantity
                    /\ new.id = old.id
                    /\ new.originalQuantity = old.originalQuantity
                    /\ new.costPerGram = old.costPerGram
                    /\ new.date = old.date
          /\ \A j \in (Len(currentInventory) + 1)..Len(currentInventory') :
                currentInventory'[j].remainingQuantity
                   = currentInventory'[j].originalQuantity]_vars

\* A replay has ended in which two sales drew, one after the other, from the
\* same lot, which is left partly used with the quantity and rate it was
\* opened with.
C22_Witness ==
    /\ pc = "done"
    /\ \E j \in 1..Len(currentInventory) :
          LET lot == currentInventory[j]
          IN  /\ 0 < lot.remainingQuantity
              /\ lot.remainingQuantity < lot.originalQuantity
              /\ drawn[j] = lot.originalQuantity - lot.remainingQuantity
              /\ Cardinality({i \in 1..Len(processedInvoices) :
                    \E l \in Range(DrawLines(processedInvoices[i].fifoLog)) :
                       l.date = lot.date}) = 2
              /\ \E p \in ledger : /\ p.id = lot.id
                                   /\ p.quantityGrams = lot.originalQuantity
                                   /\ p.ratePerGram = lot.costPerGram
                                   /\ p.date = lot.date

(***************************************************************************)
(* C23.  Manual sync uploads exactly the unsynced set.  What               *)
(* handleManualSync passes to bulkInsertOrders is the local transactions   *)
(* whose id is not in the fetched remote list, each as it is in the local  *)
(* list, and the upload adds these rows and touches no other; nothing is   *)
(* uploaded when that set is empty or the fetch failed; a failed fetch     *)
(* leaves invoices and inventory as they are and sets dbError.  When the   *)
(* reload that follows a successful upload completes on a successful       *)
(* fetch, no local id is missing from the remote list.                     *)
(***************************************************************************)
C23_ManualSync ==
    [][/\ (sync.pc = "fetching" /\ sync'.pc = "inserting") =>
             LET missingInCloud == sync'.missingInCloud
             IN  /\ Ids(missingInCloud) = Ids(sync.localOrders) \ Ids(cloud)
                 /\ missingInCloud # <<>>
                 /\ Len(missingInCloud) = Cardinality(Ids(missingInCloud))
                 /\ Range(missingInCloud) \subseteq Range(sync.localOrders)
                 /\ cloud' = cloud
       /\ (sync.pc = "inserting" /\ sync'.pc = "loading") =>
             /\ Ids(cloud') = Ids(cloud) \cup Ids(sync.missingInCloud)
             /\ Len(cloud') = Len(cloud) + Len(sync.missingInCloud)
             /\ \A i \in 1..Len(cloud) : cloud'[i] = cloud[i]
             /\ \A i \in 1..Len(sync.missingInCloud) :
                   mapOrderToDB(sync.missingInCloud[i]) \in Range(cloud')
       /\ (sync.pc \in {"fetching", "inserting"} /\ sync'.pc = "idle") =>
             /\ cloud' = cloud
             /\ invoices' = invoices
             /\ inventory' = inventory
       /\ (sync.pc = "fetching" /\ sync'.pc = "idle"
              /\ Ids(sync.localOrders) \ Ids(cloud) # {}) => dbError'
       /\ ManualSyncFetchFails => dbError'
       /\ \A k \in 1..MaxLoads :
             (LoadDataResume(k) /\ sync.pc = "loading" /\ sync.load = k /\ loads[k].ok) =>
                Ids(sync.localOrders) \subseteq Ids(loads[k].rows)]_vars

\* The fields of a transaction that are input, not computed.
InputFields == {"id", "date", "createdAt", "type", "quantityGrams",
                "ratePerGram", "taxableAmount"}

\* saveOrderToSupabase(invoice) succeeding on the table, then fetchOrders():
\* the transaction read back under the invoice's id.
RoundTrip(rows, invoice) ==
    WithId(fetchOrders(Upsert(rows, mapOrderToDB(invoice))), invoice.id)[1]

(***************************************************************************)
(* C24.  Lossless persistence round trip.  A transaction saved with        *)
(* saveOrderToSupabase and read back with fetchOrders has the input fields *)
(* of the original, createdAt among them; so the list displayed at the     *)
(* optimistic update, with the transaction replaced by the copy read back, *)
(* replays in the same order to the same cogs.                             *)
(***************************************************************************)
C24_LosslessRoundTrip ==
    \A invoice \in saves :
       LET back == RoundTrip(cloud, invoice)
           reloaded == [i \in 1..Len(replayed) |->
                           IF replayed[i].id = invoice.id THEN back ELSE replayed[i]]
           first == recalculateAllData(replayed).updatedInvoices
           second == recalculateAllData(reloaded).updatedInvoices
       IN  /\ \A f \in InputFields : back[f] = invoice[f]
           /\ IdSeq(second) = IdSeq(first)
           /\ \A i \in 1..Len(first) : second[i].cogs = first[i].cogs

\* What handleManualSync would pass to bulkInsertOrders were it to fetch now.
WouldUpload(rows, local) == UnsyncedLocalOrders(fetchOrders(rows), local)

(***************************************************************************)
(* C25.  Deletion is effective.  When the loadData that confirmDelete      *)
(* calls after deleting id X from the remote store completes on a fetch    *)
(* that succeeded and did not return X, X is not among the displayed       *)
(* invoices nor among the lots, whatever the local cache holds; and X is   *)
(* not among what a handleManualSync run from then on uploads.             *)
(***************************************************************************)
C25_DeletionEffective ==
    [][\A k \in 1..MaxLoads :
          (/\ LoadDataResume(k)
           /\ loads[k].after # 0
           /\ loads[k].ok
           /\ loads[k].after \notin Ids(loads[k].rows)) =>
             /\ loads[k].after \notin Ids(invoices')
             /\ loads[k].after \notin Ids(inventory')
             /\ loads[k].after \notin Ids(WouldUpload(cloud', localStore))]_vars

\* A displayed invoice that was entered through the form in this session:
\* its createdAt is a reading of the session's clock.
EnteredHere(inv) == inv.createdAt > MaxId

(***************************************************************************)
(* C26.  No lost update from a stale load.  An invoice that                *)
(* handleAddInvoice has put among the displayed invoices and whose         *)
(* saveOrderToSupabase has succeeded is still displayed, and its lot is    *)
(* among the lots when it is a purchase, when the last loadData in flight  *)
(* completes on a successful fetch.                                        *)
(***************************************************************************)
C26_NoLostUpdate ==
    [][\A k \in 1..MaxLoads :
          (/\ LoadDataResume(k)
           /\ loads[k].ok
           /\ \A j \in (1..MaxLoads) \ {k} : loads[j].pc = "idle") =>
             \A i \in 1..Len(invoices) :
                (/\ EnteredHere(invoices[i])
                 /\ invoices[i].id \in Ids(cloud)
                 /\ invoices[i].id \notin {s.id : s \in saves}) =>
                   /\ invoices[i].id \in Ids(invoices')
                   /\ IsPurchase(invoices[i]) => invoices[i].id \in Ids(inventory')]_vars

\* The ids of the displayed sales that carry a stockout warning.
StockedOut(shown) ==
    {shown[i].id : i \in {j \in 1..Len(shown) :
                            /\ ~IsPurchase(shown[j])
                            /\ StockoutLines(shown[j].fifoLog) # <<>>}}

(***************************************************************************)
(* C27.  A sale accepted by the form never stocks out on replay.  When     *)
(* handleAddInvoice is run for a SALE whose quantity is at most the        *)
(* current stock, the replay it stores gives a stockout warning to no sale *)
(* (the new one included) that did not carry one before, whatever the      *)
(* date of the new sale.                                                   *)
(***************************************************************************)
C27_AcceptedSaleNeverStocksOut ==
    [][\A invoice \in saves' \ saves :
          (/\ ~IsPurchase(invoice)
           /\ invoice.quantityGrams > 0
           /\ invoice.quantityGrams <= CurrentStock(inventory)) =>
             StockedOut(invoices') \subseteq StockedOut(invoices)]_vars

(***************************************************************************)
(* C28.  Consumed lots form a prefix.  At every point of every replay, a   *)
(* lot that has been drawn from (remainingQuantity < originalQuantity) has *)
(* before it in the lot list only lots with remainingQuantity at most the  *)
(* tolerance; and no step reduces a lot while a lot before it holds more   *)
(* than the tolerance.                                                     *)
(***************************************************************************)
C28_ConsumedPrefix ==
    /\ [](\A i, j \in 1..Len(currentInventory) :
             (/\ i < j
              /\ currentInventory[j].remainingQuantity
                    < currentInventory[j].originalQuantity)
             => currentInventory[i].remainingQuantity <= EPS)
    /\ [][\A i, j \in 1..Len(currentInventory) :
             (/\ i < j
              /\ pc' # "idle"
              /\ currentInventory'[j].remainingQuantity
                    < currentInventory[j].remainingQuantity)
             => currentInventory[i].remainingQuantity <= EPS]_vars

\* A replay has ended in which one sale drained the first lot to 0 and went
\* on to the second, which still holds more than the tolerance.
C28_Witness ==
    /\ pc = "done"
    /\ Len(currentInventory) = 2
    /\ currentInventory[1].remainingQuantity = 0
    /\ drawn[1] > 0
    /\ currentInventory[2].remainingQuantity > EPS
    /\ currentInventory[2].remainingQuantity < currentInventory[2].originalQuantity
    /\ Len(DrawLines(Last(processedInvoices).fifoLog)) = 2

\* The position in a list of the member with this id.
IndexOf(s, id) == CHOOSE i \in 1..Len(s) : s[i].id = id

(***************************************************************************)
(* C29.  No back-fill.  A sale draws only from lots whose purchase comes   *)
(* before the sale in the replay order, so every audit line of a sale      *)
(* names a lot dated on or before the sale's date; a closedDate is never   *)
(* before the lot's date; and replaying a purchase changes no record       *)
(* processed before it, so a stocked-out sale keeps its cogs, profit and   *)
(* stockout warning when a purchase follows.                               *)
(***************************************************************************)
C29_NoBackFill ==
    /\ [](/\ \A i \in 1..Len(processedInvoices) :
                \A l \in Range(DrawLines(processedInvoices[i].fifoLog)) :
                   l.date <= processedInvoices[i].date
          /\ pc = "sale" =>
                \A l \in Range(DrawLines(consumptionLog)) : l.date <= sorted[idx].date
          /\ \A j \in 1..Len(currentInventory) :
                currentInventory[j].closedDate # 0 =>
                   currentInventory[j].closedDate >= currentInventory[j].date)
    /\ [][/\ \A j \in 1..Len(currentInventory) :
                (pc = "sale" /\ drawn'[j] > drawn[j]) =>
                   /\ IndexOf(sorted, currentInventory[j].id) < idx
                   /\ IsPurchase(sorted[IndexOf(sorted, currentInventory[j].id)])
          /\ (pc = "loop" /\ pc' = "loop" /\ IsPurchase(sorted[idx])) =>
                /\ SubSeq(processedInvoices', 1, Len(processedInvoices))
                      = processedInvoices
                /\ SubSeq(currentInventory', 1, Len(currentInventory))
                      = currentInventory]_vars

\* A replay has ended in which a sale was left short with a stockout warning
\* and a purchase dated the same day, entered after it, was replayed next:
\* its lot is untouched and the sale's record names no lot.
C29_Witness ==
    /\ pc = "done"
    /\ \E k \in 1..Len(processedInvoices) :
          /\ k < Len(processedInvoices)
          /\ ~IsPurchase(processedInvoices[k])
          /\ StockoutLines(processedInvoices[k].fifoLog) # <<>>
          /\ DrawLines(processedInvoices[k].fifoLog) = <<>>
          /\ processedInvoices[k].cogs = 0
          /\ IsPurchase(processedInvoices[k + 1])
          /\ processedInvoices[k + 1].date = processedInvoices[k].date
          /\ Last(currentInventory).id = processedInvoices[k + 1].id
          /\ Last(currentInventory).remainingQuantity
                = Last(currentInventory).originalQuantity

\* A record without the fields recalculateAllData sets.
Bare(r) == [f \in (DOMAIN r) \ ComputedFields |-> r[f]]

(***************************************************************************)
(* C30.  Re-feeding the output is harmless.  recalculateAllData run on the *)
(* annotated records it returned, in the order returned or reversed as the *)
(* application displays them, returns the same records (cogs, profit,      *)
(* fifoLog) and the same lots as the first run; the result is that of the  *)
(* records stripped of their computed fields, and no log grows from one    *)
(* run to the next.                                                        *)
(***************************************************************************)
C30_RefeedHarmless ==
    pc = "done" =>
       LET again == recalculateAllData(processedInvoices)
           shown == recalculateAllData(Reverse(processedInvoices))
           bare == recalculateAllData([i \in 1..Len(processedInvoices) |->
                                          Bare(processedInvoices[i])])
       IN  /\ again.updatedInvoices = processedInvoices
           /\ again.updatedInventory = currentInventory
           /\ shown = again
           /\ bare = again
           /\ \A i \in 1..Len(processedInvoices) :
                 Len(again.updatedInvoices[i].fifoLog)
                    = Len(processedInvoices[i].fifoLog)

\* A replay has ended whose records carry what a second run could pick up:
\* a sale with cogs, profit and a log of a warning and a draw, a sale with
\* a stockout warning, and a lot closed by a sale.
C30_Witness ==
    /\ pc = "done"
    /\ \E i, k \in 1..Len(processedInvoices) :
          /\ ~IsPurchase(processedInvoices[i])
          /\ processedInvoices[i].cogs > 0
          /\ processedInvoices[i].profit # 0
          /\ Len(processedInvoices[i].fifoLog) >= 2
          /\ ~IsPurchase(processedInvoices[k])
          /\ StockoutLines(processedInvoices[k].fifoLog) # <<>>
    /\ \E j \in 1..Len(currentInventory) : currentInventory[j].closedDate # 0
    /\ recalculateAllData(Reverse(processedInvoices)).updatedInvoices = processedInvoices

=============================================================================
